---- MODULE Spec2Model ----
(***************************************************************************)
(* Model of api/src/server.js: the session cart (add / clear / view), the  *)
(* totals computation and the checkout handler with its store transaction. *)
(*                                                                         *)
(* Money is integer cents.  HST_RATE (0.13) is kept as the exact fraction  *)
(* HST_RATE_NUM / HST_RATE_DEN; within the bounds used here every product  *)
(* and sum is far below 2^53, where the doubles of the source are exact,   *)
(* and Math.round(x) is floor(x + 1/2).                                    *)
(*                                                                         *)
(* The add, clear and view handlers are synchronous and are one step each; *)
(* a checkout is one step per await, so that requests of other sessions    *)
(* and of the same session interleave with it.  Every request works on its *)
(* own copy of the session (express-session), which is written back when   *)
(* the response is sent.                                                   *)
(***************************************************************************)
EXTENDS Integers, Sequences, FiniteSets, TLC

(* ------------------------------ bounds --------------------------------- *)
\* successful adds over all sessions
MaxAdds == 2
\* order ids the store hands out (AUTO_INCREMENT), rolled back ones included
MaxOrders == 2
\* length of the line sequences given to computeTotals in TotalsSpec
MaxLen == 3

(* --------------------------- program constants -------------------------- *)
HST_RATE_NUM == 13
HST_RATE_DEN == 100
MIN_QTY == 1
MAX_QTY == 10
DEFAULT_QTY == 1

PRODUCTS ==
  << [sku |-> "burger", name |-> "Burger", price_cents |-> 1000],
     [sku |-> "fries",  name |-> "Fries",  price_cents |-> 800],
     [sku |-> "coke",   name |-> "Coke",   price_cents |-> 300] >>

Sessions == {"s1", "s2"}
\* the sessions that send requests in Spec
Clients == {"s1"}

\* request bodies of POST /api/cart/add, with an integer qty or without qty:
\* the ends of the accepted range, one below, one above, a sku off the catalog
Body(sku, qty) == [sku |-> sku, hasQty |-> TRUE, qty |-> qty]
NoQtyBody(sku) == [sku |-> sku, hasQty |-> FALSE, qty |-> 0]
Bodies ==
  { Body("burger", 1), Body("burger", 10), NoQtyBody("burger"), Body("coke", 2),
    Body("pizza", 1), Body("burger", 0), Body("coke", 11) }

\* arguments of computeTotals in TotalsSpec
PriceInputs == {0, 50, 300, 800, 1000}
CountInputs == {0, 1, 2}
LineInputs == [unit_price_cents : PriceInputs, qty : CountInputs]

VARIABLES
  sess,         \* sess[s]: the stored session; has: its cart is set
  req,          \* req[s]: the checkout request of session s in flight
  last,         \* history: the request that ended last, and how
  orders,       \* committed rows of table orders, in insertion order
  order_items,  \* committed rows of table order_items
  snapshots,    \* history: snapshots[id] is the cart that order id was inserted from
  adds,         \* number of successful adds so far (bounded by MaxAdds)
  items,        \* TotalsSpec: the argument given to computeTotals
  result        \* TotalsSpec: what computeTotals returned for items

vars == << sess, req, last, orders, order_items, snapshots, adds, items, result >>

(* ------------------------------ helpers -------------------------------- *)
RECURSIVE SumSeq(_)
SumSeq(s) == IF s = << >> THEN 0 ELSE Head(s) + SumSeq(Tail(s))

\* Math.round of the non-negative rational n / d
MathRound(n, d) == (2 * n + d) \div (2 * d)

\* money(cents): (cents / 100).toFixed(2), as << units, two-digit fraction >>
money(cents) == << cents \div 100, cents % 100 >>

\* PRODUCTS.find(x => x.sku === sku)
FindProduct(sku) ==
  LET idx == { i \in 1..Len(PRODUCTS) : PRODUCTS[i].sku = sku }
  IN  PRODUCTS[CHOOSE i \in idx : \A j \in idx : i <= j]

\* cart.find(x => x.sku === sku): index of the first such line, 0 if none
FindLine(cart, sku) ==
  LET idx == { i \in 1..Len(cart) : cart[i].sku = sku }
  IN  IF idx = {} THEN 0 ELSE CHOOSE i \in idx : \A j \in idx : i <= j

\* mutant of computeTotals: the tax is truncated
computeTotals_Floor(its) ==
  LET subtotal == SumSeq([i \in 1..Len(its) |-> its[i].unit_price_cents * its[i].qty])
      hst      == (subtotal * HST_RATE_NUM) \div HST_RATE_DEN
  IN  [subtotal |-> subtotal, hst |-> hst, total |-> subtotal + hst]

computeTotals(its) ==
  LET subtotal == SumSeq([i \in 1..Len(its) |-> its[i].unit_price_cents * its[i].qty])
      hst      == MathRound(subtotal * HST_RATE_NUM, HST_RATE_DEN)
  IN  [subtotal |-> subtotal, hst |-> hst, total |-> subtotal + hst]

\* getCart(req): the cart of the session, created empty when there is none
getCart(session) == IF session.has THEN session.cart ELSE << >>

Stored(cart) == [has |-> TRUE, cart |-> cart]

\* a request that ended: who sent it, the handler, the status and body sent
\* (status 0, body "unhandled": the handler ended in a rejection, nothing was sent)
Done(s, op, status, body) ==
  [s |-> s, op |-> op, status |-> status, body |-> body, orderId |-> 0, log |-> << >>]

CheckoutDone(s, r, status, body, log) ==
  [s |-> s, op |-> "checkout", status |-> status, body |-> body,
   orderId |-> r.orderId, log |-> log]

(* -------------------------- POST /api/cart/add -------------------------- *)
\* mutants of addSchemaOK: the schema without .max(10), without .min(1)
addSchemaOK_NoMax(body) ==
  /\ body.sku \in {"burger", "fries", "coke"}
  /\ (body.hasQty => body.qty >= MIN_QTY)

addSchemaOK_NoMin(body) ==
  /\ body.sku \in {"burger", "fries", "coke"}
  /\ (body.hasQty => body.qty <= MAX_QTY)

\* addSchema.safeParse(req.body).success
addSchemaOK(body) ==
  /\ body.sku \in {"burger", "fries", "coke"}
  /\ (body.hasQty => (body.qty >= MIN_QTY /\ body.qty <= MAX_QTY))

\* parsed.data.qty: .default(1) fills in a missing qty
addSchemaQty(body) == IF body.hasQty THEN body.qty ELSE DEFAULT_QTY

NewLine(p, qty) ==
  [sku |-> p.sku, name |-> p.name, unit_price_cents |-> p.price_cents, qty |-> qty]

\* mutant of addLine: always pushes a new line
addLine_AlwaysPush(cart, p, qty) == Append(cart, NewLine(p, qty))

\* existing ? existing.qty += qty : cart.push({...})
addLine(cart, p, qty) ==
  LET k == FindLine(cart, p.sku)
  IN  IF k # 0 THEN [cart EXCEPT ![k].qty = @ + qty]
      ELSE Append(cart, NewLine(p, qty))

CartAdd(s, body) ==
  /\ IF ~addSchemaOK(body)
       THEN /\ last' = Done(s, "add", 400, "invalid_input")
            /\ UNCHANGED << sess, adds >>
       ELSE /\ adds < MaxAdds
            /\ adds' = adds + 1
            /\ last' = Done(s, "add", 200, "ok")
            /\ sess' = [sess EXCEPT ![s] =
                 Stored(addLine(getCart(sess[s]), FindProduct(body.sku),
                                addSchemaQty(body)))]
  /\ UNCHANGED << req, orders, order_items, snapshots, items, result >>

(* ------------------------- POST /api/cart/clear ------------------------- *)
CartClear(s) ==
  /\ sess' = [sess EXCEPT ![s] = Stored(<< >>)]
  /\ last' = Done(s, "clear", 200, "ok")
  /\ UNCHANGED << req, orders, order_items, snapshots, adds, items, result >>

(* ----------------------------- GET /api/cart ---------------------------- *)
ViewBody(cart) ==
  LET totals == computeTotals(cart)
  IN  [cart   |-> [i \in 1..Len(cart) |->
                     [sku |-> cart[i].sku, name |-> cart[i].name,
                      unit_price_cents |-> cart[i].unit_price_cents,
                      qty |-> cart[i].qty,
                      unit_price |-> money(cart[i].unit_price_cents)]],
       totals |-> [subtotal |-> money(totals.subtotal), hst |-> money(totals.hst),
                   total |-> money(totals.total)]]

CartView(s) ==
  /\ sess' = [sess EXCEPT ![s] = Stored(getCart(sess[s]))]
  /\ last' = Done(s, "view", 200, ViewBody(getCart(sess[s])))
  /\ UNCHANGED << req, orders, order_items, snapshots, adds, items, result >>

(* --------------------------- the store's side --------------------------- *)
(* The relational store behind pool / conn (./db): rows inserted while a   *)
(* connection's transaction is open are pending until commit and dropped   *)
(* by rollback; rows inserted with no transaction open are committed at    *)
(* once (autocommit).  A store call that fails has no effect on the        *)
(* tables.                                                                 *)
\* a connection as the pool hands it out
NoTx == [open |-> FALSE, orders |-> << >>, items |-> << >>]

\* the pending rows of a connection after an INSERT of row
InsertPending(open, pending, row) == IF open THEN Append(pending, row) ELSE pending

\* the committed rows of a table after an INSERT of row
InsertCommitted(open, committed, row) ==
  IF open THEN committed ELSE Append(committed, row)

\* the committed rows of a table after COMMIT
CommitRows(committed, pending) == committed \o pending

\* mutant of beginTx: no transaction is opened
beginTx_Forgotten(tx) == tx

\* conn.beginTransaction()
beginTx(tx) == [tx EXCEPT !.open = TRUE]

(* --------------------------- POST /api/checkout ------------------------- *)
ZeroTotals == [subtotal |-> 0, hst |-> 0, total |-> 0]

IdleReq ==
  [pc |-> "idle", cart |-> << >>, totals |-> ZeroTotals, orderId |-> 0,
   i |-> 0, tx |-> NoTx, log |-> << >>]

\* mutant of cartEmpty: the emptiness check never fires
cartEmpty_Never(cart) == FALSE

\* !cart.length
cartEmpty(cart) == Len(cart) = 0

\* mutant of lineTotal: the quantity is left out
lineTotal_NoQty(it) == it.unit_price_cents

\* const lineTotal = it.unit_price_cents * it.qty
lineTotal(it) == it.unit_price_cents * it.qty

\* mutant of clearedCart: the cart is kept after the order
clearedCart_Kept(cart) == cart

\* req.session.cart = [] after the commit
clearedCart(cart) == << >>

\* mutant of CatchLog: the catch block does not roll back
CatchLog_NoRollback(log) == log

\* catch (e) { await conn.rollback(); ... }: the rollback is called
CatchLog(log) == Append(log, "rollback")

\* finally { conn.release(); }
FinallyLog(log) == Append(log, "release")

EnterCatch(r) == [r EXCEPT !.pc = "rollback", !.log = CatchLog(@)]

\* checkouts in flight that have not been given an order id yet
Waiting == { t \in Sessions : req[t].pc \in {"getConnection", "beginTransaction",
                                              "insertOrder"} }

Receipt(r) ==
  [order_id |-> r.orderId,
   items    |-> [k \in 1..Len(r.cart) |->
                   [sku |-> r.cart[k].sku, name |-> r.cart[k].name,
                    qty |-> r.cart[k].qty,
                    unit_price |-> money(r.cart[k].unit_price_cents),
                    line_total |-> money(r.cart[k].unit_price_cents * r.cart[k].qty)]],
   subtotal |-> money(r.totals.subtotal),
   hst      |-> money(r.totals.hst),
   total    |-> money(r.totals.total)]

\* lines 149-152: the cart is read, an empty one is refused, the totals are computed
CheckoutStart(s) ==
  /\ req[s].pc = "idle"
  /\ LET cart == getCart(sess[s])
     IN  /\ sess' = [sess EXCEPT ![s] = Stored(cart)]
         /\ IF cartEmpty(cart)
              THEN /\ last' = CheckoutDone(s, IdleReq, 400, "cart_empty", << >>)
                   /\ UNCHANGED req
              ELSE /\ Len(snapshots) + Cardinality(Waiting) < MaxOrders
                   /\ req' = [req EXCEPT ![s] =
                                [IdleReq EXCEPT !.pc = "getConnection", !.cart = cart,
                                                !.totals = computeTotals(cart)]]
                   /\ UNCHANGED last
  /\ UNCHANGED << orders, order_items, snapshots, adds, items, result >>

\* line 154: await pool.getConnection(), outside the try block
GetConnection(s, ok) ==
  /\ req[s].pc = "getConnection"
  /\ IF ok
       THEN /\ req' = [req EXCEPT ![s] =
                         [@ EXCEPT !.pc = "beginTransaction", !.log = << "acquire" >>]]
            /\ UNCHANGED last
       ELSE /\ req' = [req EXCEPT ![s] = IdleReq]
            /\ last' = CheckoutDone(s, req[s], 0, "unhandled", << >>)
  /\ UNCHANGED << sess, orders, order_items, snapshots, adds, items, result >>

\* line 156: await conn.beginTransaction()
BeginTransaction(s, ok) ==
  /\ req[s].pc = "beginTransaction"
  /\ req' = [req EXCEPT ![s] =
       IF ok THEN [@ EXCEPT !.pc = "insertOrder", !.tx = beginTx(@),
                            !.log = Append(@, "begin")]
             ELSE EnterCatch(@)]
  /\ UNCHANGED << sess, last, orders, order_items, snapshots, adds, items, result >>

OrderRow(id, totals) ==
  [id |-> id, subtotal_cents |-> totals.subtotal,
   hst_rate |-> << HST_RATE_NUM, HST_RATE_DEN >>,
   hst_cents |-> totals.hst, total_cents |-> totals.total]

\* lines 158-162: INSERT INTO orders, orderId = insertId
InsertOrder(s, ok) ==
  /\ req[s].pc = "insertOrder"
  /\ IF ok
       THEN LET id  == Len(snapshots) + 1
                row == OrderRow(id, req[s].totals)
            IN  /\ snapshots' = Append(snapshots, req[s].cart)
                /\ req' = [req EXCEPT ![s] =
                      [@ EXCEPT !.pc = "insertItem", !.orderId = id, !.i = 1,
                                !.tx.orders = InsertPending(req[s].tx.open, @, row)]]
                /\ orders' = InsertCommitted(req[s].tx.open, orders, row)
       ELSE /\ req' = [req EXCEPT ![s] = EnterCatch(@)]
            /\ UNCHANGED << orders, snapshots >>
  /\ UNCHANGED << sess, last, order_items, adds, items, result >>

ItemRow(id, it) ==
  [order_id |-> id, sku |-> it.sku, name |-> it.name,
   unit_price_cents |-> it.unit_price_cents, qty |-> it.qty,
   line_total_cents |-> lineTotal(it)]

\* lines 164-170: one INSERT INTO order_items per line of the cart
InsertItem(s, ok) ==
  /\ req[s].pc = "insertItem"
  /\ IF ok
       THEN LET r    == req[s]
                row  == ItemRow(r.orderId, r.cart[r.i])
                next == IF r.i = Len(r.cart) THEN "commit" ELSE "insertItem"
            IN  /\ req' = [req EXCEPT ![s] =
                      [@ EXCEPT !.pc = next, !.i = @ + 1,
                                !.tx.items = InsertPending(r.tx.open, @, row)]]
                /\ order_items' = InsertCommitted(r.tx.open, order_items, row)
       ELSE /\ req' = [req EXCEPT ![s] = EnterCatch(@)]
            /\ UNCHANGED order_items
  /\ UNCHANGED << sess, last, orders, snapshots, adds, items, result >>

\* lines 172-192, 196-198: commit, clear the cart, send the receipt, release
Commit(s, ok) ==
  /\ req[s].pc = "commit"
  /\ IF ok
       THEN /\ orders' = CommitRows(orders, req[s].tx.orders)
            /\ order_items' = CommitRows(order_items, req[s].tx.items)
            /\ sess' = [sess EXCEPT ![s] = Stored(clearedCart(req[s].cart))]
            /\ last' = CheckoutDone(s, req[s], 200, Receipt(req[s]),
                                    FinallyLog(Append(req[s].log, "commit")))
            /\ req' = [req EXCEPT ![s] = IdleReq]
       ELSE /\ req' = [req EXCEPT ![s] = EnterCatch(@)]
            /\ UNCHANGED << sess, last, orders, order_items >>
  /\ UNCHANGED << snapshots, adds, items, result >>

\* lines 193-198: the awaited rollback returns; on success 500 checkout_failed is
\* sent, on failure the rejection leaves the handler and nothing is sent; the
\* finally block releases the connection in both cases.  The pending rows are
\* dropped either way (a rollback that fails is a lost connection, whose
\* transaction the store aborts).
Rollback(s, ok) ==
  /\ req[s].pc = "rollback"
  /\ last' = IF ok
               THEN CheckoutDone(s, req[s], 500, "checkout_failed",
                                 FinallyLog(req[s].log))
               ELSE CheckoutDone(s, req[s], 0, "unhandled", FinallyLog(req[s].log))
  /\ req' = [req EXCEPT ![s] = IdleReq]
  /\ UNCHANGED << sess, orders, order_items, snapshots, adds, items, result >>

CheckoutStep(s) ==
  \E ok \in BOOLEAN :
    \/ GetConnection(s, ok)
    \/ BeginTransaction(s, ok)
    \/ InsertOrder(s, ok)
    \/ InsertItem(s, ok)
    \/ Commit(s, ok)
    \/ Rollback(s, ok)

(* ------------------------------ the system ------------------------------ *)
Init ==
  /\ sess = [s \in Sessions |-> [has |-> FALSE, cart |-> << >>]]
  /\ req = [s \in Sessions |-> IdleReq]
  /\ last = Done("s1", "none", 0, "none")
  /\ orders = << >>
  /\ order_items = << >>
  /\ snapshots = << >>
  /\ adds = 0
  /\ items = << >>
  /\ result = [done |-> FALSE, totals |-> ZeroTotals]

\* one client: its add, clear and view requests interleave with its checkout
Next ==
  \/ \E s \in Clients, body \in Bodies : CartAdd(s, body)
  \/ \E s \in Clients : CartClear(s)
  \/ \E s \in Clients : CartView(s)
  \/ \E s \in Clients : CheckoutStart(s)
  \/ \E s \in Clients : CheckoutStep(s)

Spec == Init /\ [][Next]_vars

(* ------------------- two sessions checking out at once ------------------ *)
\* the cart a session holds after the given add requests
RECURSIVE CartAfter(_)
CartAfter(bs) ==
  IF bs = << >> THEN << >>
  ELSE addLine(CartAfter(SubSeq(bs, 1, Len(bs) - 1)),
               FindProduct(bs[Len(bs)][1]), bs[Len(bs)][2])

SampleCarts ==
  { CartAfter(<< <<"fries", 10>>, <<"fries", 1>> >>),
    CartAfter(<< <<"burger", 1>>, <<"coke", 2>> >>),
    CartAfter(<< <<"burger", 1>>, <<"fries", 1>>, <<"coke", 2>> >>) }

CheckoutInit ==
  /\ sess \in [Sessions -> { Stored(c) : c \in SampleCarts }]
  /\ req = [s \in Sessions |-> IdleReq]
  /\ last = Done("s1", "none", 0, "none")
  /\ orders = << >>
  /\ order_items = << >>
  /\ snapshots = << >>
  /\ adds = 0
  /\ items = << >>
  /\ result = [done |-> FALSE, totals |-> ZeroTotals]

CheckoutNext ==
  \/ \E s \in Sessions : CheckoutStart(s)
  \/ \E s \in Sessions : CheckoutStep(s)

\* every store call of a checkout in flight returns, with success or failure
CheckoutSpec ==
  /\ CheckoutInit
  /\ [][CheckoutNext]_vars
  /\ \A s \in Sessions : WF_vars(CheckoutStep(s))

(* ------------------------ computeTotals on its own ---------------------- *)
RECURSIVE SeqsUpTo(_, _)
SeqsUpTo(S, n) ==
  IF n = 0 THEN { << >> }
  ELSE LET shorter == SeqsUpTo(S, n - 1)
       IN  shorter \cup { Append(q, x) : q \in shorter, x \in S }

TotalsInit ==
  /\ items \in SeqsUpTo(LineInputs, MaxLen)
  /\ result = [done |-> FALSE, totals |-> ZeroTotals]
  /\ sess = [s \in Sessions |-> [has |-> FALSE, cart |-> << >>]]
  /\ req = [s \in Sessions |-> IdleReq]
  /\ last = Done("s1", "none", 0, "none")
  /\ orders = << >>
  /\ order_items = << >>
  /\ snapshots = << >>
  /\ adds = 0

ComputeTotals ==
  /\ ~result.done
  /\ result' = [done |-> TRUE, totals |-> computeTotals(items)]
  /\ UNCHANGED << sess, req, last, orders, order_items, snapshots, adds, items >>

TotalsNext == ComputeTotals

TotalsSpec == TotalsInit /\ [][TotalsNext]_vars

(* =============================== properties ============================= *)
CatalogSkus == { PRODUCTS[n].sku : n \in 1..Len(PRODUCTS) }

HeadersOf(id) == LET T(r) == r.id = id IN SelectSeq(orders, T)
ItemsOf(id) == LET T(r) == r.order_id = id IN SelectSeq(order_items, T)
NoRowsOf(id) == Len(HeadersOf(id)) = 0 /\ Len(ItemsOf(id)) = 0

\* the committed rows of order id are one header and one row per line of its cart
WholeOrder(id) ==
  LET rows == ItemsOf(id)
      snap == snapshots[id]
  IN  /\ Len(HeadersOf(id)) = 1
      /\ Len(rows) = Len(snap)
      /\ \A k \in 1..Len(snap) :
           /\ rows[k].sku = snap[k].sku
           /\ rows[k].qty = snap[k].qty
           /\ rows[k].unit_price_cents = snap[k].unit_price_cents

Has(log, e) == \E k \in 1..Len(log) : log[k] = e
Count(log, e) == Cardinality({ k \in 1..Len(log) : log[k] = e })

\* the step is the successful commit that ends the checkout of s
CommitOK(s) == req[s].pc = "commit" /\ req'[s].pc = "idle"

\* the sum of unit price times quantity over the first n lines
RECURSIVE ExactSum(_, _)
ExactSum(its, n) ==
  IF n = 0 THEN 0
  ELSE ExactSum(its, n - 1) + its[n].unit_price_cents * its[n].qty

\* t is n / d rounded to the nearest integer, halves rounded up
IsHalfUp(n, d, t) == 2 * d * t <= 2 * n + d /\ 2 * n + d < 2 * d * (t + 1)

(* C1: in every state of the committed tables (what any reader sees, while   *)
(* checkouts of two sessions are in flight), the rows of an order id are     *)
(* either none or the header with exactly one row per line of the cart it    *)
(* was created from; a checkout still in flight, and the last checkout that  *)
(* failed, have no committed row at all.                                     *)
C1_AllOrNothing ==
  /\ \A k \in 1..Len(orders) : orders[k].id \in 1..Len(snapshots)
  /\ \A k \in 1..Len(order_items) : order_items[k].order_id \in 1..Len(snapshots)
  /\ \A id \in 1..Len(snapshots) : NoRowsOf(id) \/ WholeOrder(id)
  /\ \A s \in Sessions : req[s].orderId # 0 => NoRowsOf(req[s].orderId)
  /\ (last.op = "checkout" /\ last.status # 200 /\ last.orderId # 0)
       => NoRowsOf(last.orderId)

\* the insert of the second of three lines has just failed, one row is pending,
\* and the other session's order is committed
C1_Witness ==
  \E s \in Sessions :
    /\ req[s].pc = "rollback"
    /\ Len(req[s].cart) = 3
    /\ req[s].i = 2
    /\ Len(req[s].tx.items) = 1
    /\ Len(orders) = 1

(* C2: for every committed order, total = subtotal + tax, subtotal = the sum *)
(* of its rows' line totals, and every row's line total = unit price times   *)
(* quantity.                                                                 *)
C2_OrderArithmetic ==
  /\ \A k \in 1..Len(orders) :
       LET o    == orders[k]
           rows == ItemsOf(o.id)
       IN  /\ o.total_cents = o.subtotal_cents + o.hst_cents
           /\ o.subtotal_cents =
                SumSeq([j \in 1..Len(rows) |-> rows[j].line_total_cents])
  /\ \A k \in 1..Len(order_items) :
       order_items[k].line_total_cents =
         order_items[k].unit_price_cents * order_items[k].qty

\* an order of two lines, one of them with a quantity above one, is committed
C2_Witness ==
  /\ Len(orders) >= 1
  /\ Len(ItemsOf(orders[1].id)) = 2
  /\ \E k \in 1..Len(order_items) : order_items[k].qty > 1

(* C3: when a checkout whose transaction had begun ends after a failed       *)
(* insert or commit, the caller has received 500 checkout_failed and the     *)
(* session's cart is what it was.                                            *)
C3_FailureSurfaces ==
  [][\A s \in Sessions :
       (req[s].pc = "rollback" /\ req'[s].pc = "idle" /\ Has(req[s].log, "begin"))
         => /\ last'.op = "checkout"
            /\ last'.s = s
            /\ last'.status = 500
            /\ last'.body = "checkout_failed"
            /\ sess'[s] = sess[s]]_vars

\* an insert or the commit failed after begin, the rollback failed as well:
\* the checkout ended with nothing sent, the cart as it was
C3_Witness ==
  /\ last.op = "checkout"
  /\ last.status = 0
  /\ Has(last.log, "begin")
  /\ Len(getCart(sess[last.s])) >= 1

(* C4: the step that commits a checkout empties the session's cart, so that  *)
(* a view then returns no lines, and appends the order row whose subtotal,   *)
(* tax and total are those of the cart the checkout read; no other step of a *)
(* checkout changes the cart.                                                *)
C4_ClearedAfterCommit ==
  [][\A s \in Sessions :
       /\ CommitOK(s) =>
            /\ ViewBody(getCart(sess'[s])).cart = << >>
            /\ Len(orders') = Len(orders) + 1
            /\ LET o    == orders'[Len(orders')]
                   snap == snapshots[o.id]
               IN  /\ o.id = req[s].orderId
                   /\ snap = req[s].cart
                   /\ o.subtotal_cents = ExactSum(snap, Len(snap))
                   /\ IsHalfUp(o.subtotal_cents * 13, 100, o.hst_cents)
                   /\ o.total_cents = o.subtotal_cents + o.hst_cents
       /\ (req[s].pc # "idle" /\ req'[s] # req[s] /\ ~CommitOK(s))
            => sess'[s] = sess[s]
       /\ (req[s].pc = "idle" /\ req'[s].pc # "idle")
            => getCart(sess'[s]) = getCart(sess[s])]_vars

\* a checkout has just committed an order and the cart is empty
C4_Witness ==
  /\ last.op = "checkout"
  /\ last.status = 200
  /\ getCart(sess[last.s]) = << >>
  /\ \E k \in 1..Len(orders) : orders[k].id = last.orderId

(* C5: a checkout of a cart with no lines answers 400 cart_empty without any *)
(* store call and leaves the tables alone; every committed order has at      *)
(* least one row, and no order id was ever inserted from an empty cart.      *)
C5_NoEmptyOrder ==
  /\ [](/\ \A k \in 1..Len(orders) : Len(ItemsOf(orders[k].id)) >= 1
        /\ \A id \in 1..Len(snapshots) : Len(snapshots[id]) >= 1)
  /\ [][\A s \in Sessions :
          (CheckoutStart(s) /\ Len(getCart(sess[s])) = 0)
            => /\ last'.op = "checkout"
               /\ last'.status = 400
               /\ last'.body = "cart_empty"
               /\ last'.log = << >>
               /\ UNCHANGED << req, orders, order_items, snapshots >>]_vars

\* after an order was committed, a checkout of the emptied cart was refused
C5_Witness ==
  /\ last.op = "checkout"
  /\ last.status = 400
  /\ Len(orders) >= 1

(* C6: computeTotals returns the exact sum of unit price times quantity as   *)
(* subtotal, the subtotal times 0.13 rounded half-up as tax, and their sum   *)
(* as total; zeros for no lines; 2400, 312, 2712 for (1000,1),(800,1),       *)
(* (300,2).                                                                  *)
C6_TotalsCorrect ==
  result.done =>
    LET t   == result.totals
        sub == ExactSum(items, Len(items))
    IN  /\ t.subtotal = sub
        /\ IsHalfUp(sub * 13, 100, t.hst)
        /\ t.total = t.subtotal + t.hst
        /\ (items = << >> => (t.subtotal = 0 /\ t.hst = 0 /\ t.total = 0))
        /\ (items = << [unit_price_cents |-> 1000, qty |-> 1],
                       [unit_price_cents |-> 800, qty |-> 1],
                       [unit_price_cents |-> 300, qty |-> 2] >>
              => (t.subtotal = 2400 /\ t.hst = 312 /\ t.total = 2712))

\* the totals of (1000,1),(800,1),(300,2) have been computed
C6_Witness ==
  /\ result.done
  /\ Len(items) = 3
  /\ ExactSum(items, 3) = 2400
  /\ result.totals.total = 2712

\* c changed into d by adding q of sku: the line of sku grows by q and nothing
\* else moves, or a line with the catalog's name and price is appended
AddEffect(c, d, sku, q) ==
  IF \E k \in 1..Len(c) : c[k].sku = sku
    THEN /\ Len(d) = Len(c)
         /\ \A k \in 1..Len(c) :
              d[k] = IF c[k].sku = sku THEN [c[k] EXCEPT !.qty = c[k].qty + q]
                     ELSE c[k]
    ELSE \E n \in 1..Len(PRODUCTS) :
           /\ PRODUCTS[n].sku = sku
           /\ d = Append(c, [sku |-> sku, name |-> PRODUCTS[n].name,
                             unit_price_cents |-> PRODUCTS[n].price_cents,
                             qty |-> q])

UniqueSkus(cart) ==
  \A i, j \in 1..Len(cart) : cart[i].sku = cart[j].sku => i = j

C8_InvalidAddRejected ==
  [][(\E s \in Sessions, b \in Bodies :
        /\ b.sku \notin CatalogSkus \/ (b.hasQty /\ (b.qty < 1 \/ b.qty > 10))
        /\ CartAdd(s, b))
         => /\ last'.op = "add"
            /\ last'.status = 400
            /\ UNCHANGED << sess, req, orders, order_items, snapshots >>]_vars

\* an add was refused while the cart held a line
C8_Witness ==
  /\ last.op = "add"
  /\ last.status = 400
  /\ Len(sess["s1"].cart) >= 1

QtyOf(cart, sku) ==
  SumSeq([k \in 1..Len(cart) |-> IF cart[k].sku = sku THEN cart[k].qty ELSE 0])

(* C9, as claimed: every line of every cart has a quantity from 1 to 10.     *)
C9_QtyWithinCap ==
  \A s \in Sessions : \A k \in 1..Len(sess[s].cart) :
    sess[s].cart[k].qty >= 1 /\ sess[s].cart[k].qty <= 10

(* C9, amended: every line of every cart has a quantity of at least 1, and   *)
(* after any step a line holds at most 10 more than the cart held of its sku *)
(* before the step (the cap bounds one add request, not the line).           *)
C9_QtyPositiveAddCapped ==
  /\ [](\A s \in Sessions : \A k \in 1..Len(sess[s].cart) :
          sess[s].cart[k].qty >= 1)
  /\ [][\A s \in Sessions : \A k \in 1..Len(sess'[s].cart) :
          sess'[s].cart[k].qty
            <= QtyOf(sess[s].cart, sess'[s].cart[k].sku) + 10]_vars

\* a line holds 11
C9_Witness ==
  \E s \in Sessions : \E k \in 1..Len(sess[s].cart) : sess[s].cart[k].qty = 11

\* the checkout of s holds a connection
Held(s) ==
  req[s].pc \in {"beginTransaction", "insertOrder", "insertItem", "commit", "rollback"}

C10_ReleaseInv ==
  /\ \A s \in Sessions :
       /\ Held(s) => (Count(req[s].log, "acquire") = 1
                      /\ Count(req[s].log, "release") = 0)
       /\ req[s].pc = "rollback" => Has(req[s].log, "rollback")
       /\ ~Held(s) => req[s].log = << >>
  /\ last.op = "checkout" =>
       /\ Count(last.log, "acquire") = Count(last.log, "release")
       /\ Count(last.log, "acquire") <= 1
       /\ Has(last.log, "acquire") =>
            /\ last.log[1] = "acquire"
            /\ last.log[Len(last.log)] = "release"
            /\ (last.status # 200 =>
                  \E k \in 1..(Len(last.log) - 1) : last.log[k] = "rollback")

(* C10: a checkout that has acquired a connection ends, and when it ends it  *)
(* has released the connection exactly once, as its last act; when it ends   *)
(* without a receipt it has called rollback before the release.              *)
C10_ConnectionReleased ==
  /\ []C10_ReleaseInv
  /\ \A s \in Sessions : Held(s) ~> ~Held(s)

\* a checkout ended with its rollback failing, its connection released
C10_Witness ==
  /\ last.op = "checkout"
  /\ last.status = 0
  /\ Has(last.log, "rollback")
  /\ Count(last.log, "release") = 1

====
